---- MODULE Spec2Model ----
(***************************************************************************)
(* tunecli: the player that drives a headless mpv over its JSON IPC        *)
(* socket, the event listener that keeps the PlaybackState in step with    *)
(* the engine, and the observers (terminal UI, MPRIS bridge) that read it. *)
(*                                                                         *)
(* Two revisions of internal/player/player.go are modelled side by side:   *)
(*   rev = "A"  NewPlayer(), one shared channel StateChanges               *)
(*   rev = "B"  New(socketPath), one channel per Subscribe() call          *)
(* and, for construction and for the first list UI, the first player of    *)
(* the repository:                                                         *)
(*   rev = "0"  spawn, sleep, dial once; no state, no listener             *)
(* The list UIs (wrap-around cursor, Bubble Tea, tview keys), the MPRIS    *)
(* server's Pause and Play, and one sendCommand call followed through its  *)
(* dial and its write each have a specification of their own.              *)
(*                                                                         *)
(* Strings that the code inspects (paths, titles) are sequences of         *)
(* one-character strings; JSON numbers are held in tenths (496 is 49.6).   *)
(***************************************************************************)
EXTENDS Integers, Sequences, FiniteSets, TLC

VARIABLES
    rev,        \* which revision of the player is running
    state,      \* Player.currentState (A) / Player.state (B)
    mu,         \* Player.mu: "free" or "w" (write-locked by the listener)
    subs,       \* the notification channels: <<StateChanges>> (A), Player.subscribers (B)
    chClosed,   \* StateChanges has been closed (A, Shutdown)
    stream,     \* lines the engine has written that the listener has not read yet
    left,       \* how many more lines the engine will write in this run
    inputs,     \* the lines the engine may write in this run
    proc,       \* the mpv process: "none", "running", "exited" or "killed"
    ctxDone,    \* Player.ctx has been cancelled
    lpc,        \* event listener: "none", "observe", "scan", "publish" or "exited"
    snap,       \* the snapshot the listener is about to publish
    lastLine,   \* the line the listener decoded last
    lastPub,    \* what the last publish did on each channel
    ver,        \* number of mutations of the state so far
    seen,       \* per observer: the last snapshot it received
    display,    \* per observer: what it shows
    draws,      \* tview: updates queued by QueueUpdateDraw and not yet run
    lastCall,   \* the last command method called and what it did
    sdpc,       \* Player.Shutdown: "idle", "quit", "wait" or "done"
    sock,       \* the control socket file: "absent", "stale" (left by an earlier
                \* run, nobody listening) or "present" (the engine listens on it)
    startpc,    \* the constructor: "cleanup", "spawn", "wait", "observe", "running"
                \* (it returned a Player) or "failed" (it returned an error)
    observed,   \* the observe_property commands sent so far: id, property, whether sent
    startErr,   \* the error the constructor returned ("" for none)
    sendpc,     \* a sendCommand call followed step by step: "idle", "dial",
                \* "write" or "returned"
    pending,    \* bytes of that command not yet taken by conn.Write
    sockbuf,    \* bytes in the connection's send buffer the engine has not read
    mpvPaused,  \* the engine's own pause property
    panic,      \* the run-time panic that ended the program ("" for none)
    currentView, \* list UIs: the view shown, "radio" or "files"
    cursor,     \* list UIs: Model.cursor
    stations,   \* list UIs: the URLs of the configured stations
    files,      \* list UIs: the paths of the local files (songs)
    visible,    \* Bubble Tea UI: the last result of getVisibleRange, <<start, end>>
    isPlaying   \* wrap-around UI: Model.isPlaying

vars == <<rev, state, mu, subs, chClosed, stream, left, inputs, proc, ctxDone,
          lpc, snap, lastLine, lastPub, ver, seen, display, draws, lastCall, sdpc,
          sock, startpc, observed, startErr, sendpc, pending, sockbuf, mpvPaused,
          panic, currentView, cursor, stations, files, visible, isPlaying>>

\* one sendCommand call on its connection
conn == <<sendpc, pending, sockbuf>>

\* the model of a list UI
screen == <<currentView, cursor, stations, files, visible, isPlaying>>

\* what only the constructor writes
boot == <<startpc, observed, startErr>>

(***************************************************************************)
(* Bounds of the model.                                                    *)
(***************************************************************************)
MaxLines == 2
FloodLines == 11
MaxPending == 1
MaxSubs == 1

(***************************************************************************)
(* Program constants.                                                      *)
(***************************************************************************)
ChanCap == 10
InitVolumeA == 100
InitVolumeB == 70
MinVolume == 0
MaxVolume == 100

(***************************************************************************)
(* Strings.                                                                *)
(***************************************************************************)
Blank == " "
Slash == "/"

RECURSIVE TrimLeft(_)
TrimLeft(s) ==
    IF s /= <<>> /\ Head(s) = Blank THEN TrimLeft(Tail(s)) ELSE s

RECURSIVE TrimRight(_)
TrimRight(s) ==
    IF s /= <<>> /\ s[Len(s)] = Blank THEN TrimRight(SubSeq(s, 1, Len(s) - 1)) ELSE s

\* strings.TrimSpace
TrimSpace(s) == TrimRight(TrimLeft(s))

\* strings.Contains
Contains(s, sub) ==
    \E i \in 1..(Len(s) - Len(sub) + 1) : SubSeq(s, i, i + Len(sub) - 1) = sub

RECURSIVE StripSlashes(_)
StripSlashes(s) ==
    IF s /= <<>> /\ s[Len(s)] = Slash THEN StripSlashes(SubSeq(s, 1, Len(s) - 1)) ELSE s

RECURSIVE AfterLastSlash(_)
AfterLastSlash(s) ==
    IF \E i \in 1..Len(s) : s[i] = Slash
    THEN AfterLastSlash(SubSeq(s, (CHOOSE i \in 1..Len(s) : s[i] = Slash) + 1, Len(s)))
    ELSE s

\* path/filepath.Base on a Unix path
Base(path) ==
    IF path = <<>> THEN <<".">>
    ELSE LET p == AfterLastSlash(StripSlashes(path))
         IN  IF p = <<>> THEN <<Slash>> ELSE p

YoutubeCom == <<"y", "o", "u", "t", "u", "b", "e", ".", "c", "o", "m">>
YoutuBe == <<"y", "o", "u", "t", "u", ".", "b", "e">>

isYoutubeURL(path) == Contains(path, YoutubeCom) \/ Contains(path, YoutuBe)

(***************************************************************************)
(* JSON values and event lines.  A line is either not decodable into an    *)
(* MpvEvent (ok = FALSE) or an object with event, name and data.           *)
(***************************************************************************)
NullData == [t |-> "null", b |-> FALSE, n |-> 0, s |-> <<>>]
BoolData(x) == [t |-> "bool", b |-> x, n |-> 0, s |-> <<>>]
NumData(x) == [t |-> "num", b |-> FALSE, n |-> x, s |-> <<>>]
StrData(x) == [t |-> "str", b |-> FALSE, n |-> 0, s |-> x]

Garbage == [ok |-> FALSE, event |-> "", name |-> "", data |-> NullData]
Ev(e, n, d) == [ok |-> TRUE, event |-> e, name |-> n, data |-> d]
NoLine == [ok |-> FALSE, event |-> "none", name |-> "", data |-> NullData]

\* Go's int(float64): truncation toward zero; the argument is in tenths
IntOfFloat(x) == IF x >= 0 THEN x \div 10 ELSE -((-x) \div 10)

(***************************************************************************)
(* PlaybackState.                                                          *)
(***************************************************************************)
MkState(playing, title, volume, pos, dur, err) ==
    [IsPlaying |-> playing, Title |-> title, Volume |-> volume,
     Position |-> pos, Duration |-> dur, Error |-> err]

ZeroState == MkState(FALSE, <<>>, 0, 0, 0, "")

InitState(r) ==
    IF r = "A" THEN [ZeroState EXCEPT !.Volume = InitVolumeA]
               ELSE [ZeroState EXCEPT !.Volume = InitVolumeB]

(***************************************************************************)
(* Revision A: Player.processEvent, the part under the lock.  Gives the    *)
(* new state and the flag `updated`.                                       *)
(***************************************************************************)
TitleOfA(title) == Base(title)

\* IsPlaying = !paused
PlayingOfSame(paused) == paused
PlayingOf(paused) == ~paused

processEvent(st, ev) ==
    IF ev.event /= "property-change" THEN [st |-> st, updated |-> FALSE]
    ELSE CASE ev.name = "pause" /\ ev.data.t = "bool" ->
                [st |-> [st EXCEPT !.IsPlaying = PlayingOf(ev.data.b)], updated |-> TRUE]
           [] ev.name = "media-title" /\ ev.data.t = "str" ->
                [st |-> [st EXCEPT !.Title = TitleOfA(ev.data.s)], updated |-> TRUE]
           [] ev.name = "volume" /\ ev.data.t = "num" ->
                [st |-> [st EXCEPT !.Volume = IntOfFloat(ev.data.n)], updated |-> TRUE]
           [] ev.name = "time-pos" /\ ev.data.t = "num" ->
                [st |-> [st EXCEPT !.Position = ev.data.n], updated |-> TRUE]
           [] ev.name = "duration" /\ ev.data.t = "num" ->
                [st |-> [st EXCEPT !.Duration = ev.data.n], updated |-> TRUE]
           [] OTHER -> [st |-> st, updated |-> FALSE]

(***************************************************************************)
(* Revision B: Player.updateProperty and the switch of Player.handleEvent. *)
(***************************************************************************)
updateProperty(st, name, value) ==
    CASE name = "pause" /\ value.t = "bool" -> [st EXCEPT !.IsPlaying = PlayingOf(value.b)]
      [] name = "media-title" /\ value.t = "str" -> [st EXCEPT !.Title = value.s]
      [] name = "volume" /\ value.t = "num" -> [st EXCEPT !.Volume = IntOfFloat(value.n)]
      [] name = "time-pos" /\ value.t = "num" -> [st EXCEPT !.Position = value.n]
      [] name = "duration" /\ value.t = "num" -> [st EXCEPT !.Duration = value.n]
      [] OTHER -> st

handleEvent(st, ev) ==
    CASE ev.event = "property-change" -> updateProperty(st, ev.name, ev.data)
      [] ev.event = "playback-restart" -> [st EXCEPT !.IsPlaying = TRUE, !.Error = ""]
      [] ev.event = "end-file" -> [st EXCEPT !.IsPlaying = FALSE]
      [] OTHER -> st

(***************************************************************************)
(* What the observers show.                                                *)
(***************************************************************************)
View(status, title, shown, volume, pos, dur) ==
    [status |-> status, title |-> title, volShown |-> shown, volume |-> volume,
     pos |-> pos, dur |-> dur]

BlankView == View("", <<>>, FALSE, 0, 0, 0)

\* ui.Model.renderStatus over Model.playerState (Bubble Tea UI, revision A)
renderStatus(s) ==
    IF s.Title = <<>> THEN View("Stopped", <<>>, FALSE, 0, 0, 0)
    ELSE View(IF s.IsPlaying THEN "Playing" ELSE "Paused", s.Title, TRUE, s.Volume, 0, 0)

\* mpris.Server.watchPlayerState: PlaybackStatus and xesam:title
watchPlayerState(s) ==
    View(IF s.Title = <<>> THEN "Stopped"
         ELSE IF s.IsPlaying THEN "Playing" ELSE "Paused",
         s.Title, FALSE, 0, 0, 0)

\* ui.formatTime: whole seconds, "00:00" for anything not positive
formatTime(x) == IF x <= 0 THEN 0 ELSE x \div 10

\* ui.UI.updateStatusBar over Player.GetState() (tview UI, revision B)
updateStatusBar(s) ==
    View(IF s.IsPlaying THEN "Playing"
         ELSE IF s.Title /= <<>> THEN "Paused" ELSE "Stopped",
         s.Title, TRUE, s.Volume, formatTime(s.Position), formatTime(s.Duration))

Observers(r) == IF r = "A" THEN {"ui", "mpris"} ELSE {"tview"}

\* what observer o would show if it rendered state s now
Render(o, s) ==
    CASE o = "ui" -> renderStatus(s)
      [] o = "mpris" -> watchPlayerState(s)
      [] OTHER -> updateStatusBar(s)

(***************************************************************************)
(* The lines an engine may write.                                          *)
(***************************************************************************)
TitleA == <<"a">>
TitleDirA == <<"d", "/", "a">>

PauseLines ==
    { Ev("property-change", "pause", BoolData(TRUE)),
      Ev("property-change", "pause", BoolData(FALSE)) }

AllLines ==
    PauseLines \cup
    { Garbage,
      Ev("property-change", "pause", NumData(10)),
      Ev("property-change", "media-title", StrData(TitleDirA)),
      Ev("property-change", "media-title", StrData(<<>>)),
      Ev("property-change", "media-title", NullData),
      Ev("property-change", "volume", NumData(496)),
      Ev("property-change", "volume", NumData(1300)),
      Ev("property-change", "volume", NumData(-50)),
      Ev("property-change", "volume", StrData(TitleA)),
      Ev("property-change", "time-pos", NumData(15)),
      Ev("property-change", "duration", NumData(30)),
      Ev("property-change", "speed", NumData(10)),
      Ev("idle", "", NullData),
      Ev("end-file", "", NullData),
      Ev("playback-restart", "", NullData),
      Ev("seek", "", NullData) }

(***************************************************************************)
(* Snapshots in flight carry the number of the mutation that made them.    *)
(***************************************************************************)
Snap(s, v) == [s |-> s, ver |-> v]
NoSnap == Snap(ZeroState, 0)

\* a command as written to the socket: keyword and arguments
Cmd(kw, path, mode, n) == [kw |-> kw, path |-> path, mode |-> mode, n |-> n]
NoCmd == Cmd("", <<>>, "", 0)

NoCall == [op |-> "none", path |-> <<>>, mode |-> "", n |-> 0,
           err |-> "", dial |-> "none", wrote |-> NoCmd]

\* the properties the player asks the engine to report
Properties == <<"pause", "media-title", "volume", "time-pos", "duration">>
Observe(i, ok) == [id |-> i, prop |-> Properties[i], ok |-> ok]
AllObserved == [i \in 1..Len(Properties) |-> Observe(i, TRUE)]

\* the fields a constructor fills in before it starts anything
InitFields ==
    /\ state = InitState(rev)
    /\ mu = "free"
    /\ subs = IF rev = "A" THEN << <<>> >> ELSE <<>>
    /\ chClosed = FALSE
    /\ stream = <<>>
    /\ ctxDone = FALSE
    /\ snap = NoSnap
    /\ lastLine = NoLine
    /\ lastPub = <<>>
    /\ ver = 0
    /\ seen = [o \in Observers(rev) |-> NoSnap]
    /\ display = [o \in Observers(rev) |->
                    IF o = "tview" THEN BlankView ELSE Render(o, ZeroState)]
    /\ draws = 0
    /\ lastCall = NoCall
    /\ sdpc = "idle"
    /\ panic = ""

\* no sendCommand call is being followed
ConnIdle ==
    /\ sendpc = "idle"
    /\ pending = 0
    /\ sockbuf = 0

\* no list UI is attached
NoScreen ==
    /\ currentView = "radio"
    /\ cursor = 0
    /\ stations = <<>>
    /\ files = <<>>
    /\ visible = <<0, 0>>
    /\ isPlaying = FALSE

\* a Player whose constructor has returned it and whose listener is reading
InitCommon ==
    /\ rev \in {"A", "B"}
    /\ InitFields
    /\ sock = "present"
    /\ startpc = "running"
    /\ observed = AllObserved
    /\ startErr = ""
    /\ proc = "running"
    /\ lpc = "scan"
    /\ mpvPaused = FALSE
    /\ ConnIdle

Init ==
    /\ InitCommon
    /\ NoScreen
    /\ inputs = AllLines
    /\ left = MaxLines

InitFlood ==
    /\ InitCommon
    /\ NoScreen
    /\ inputs = PauseLines
    /\ left = FloodLines

(***************************************************************************)
(* The engine: writes event lines while it runs; may exit at any time      *)
(* (on its own, on "quit", or killed through the player's context).        *)
(***************************************************************************)
Emit(l) ==
    /\ proc = "running"
    /\ left > 0
    /\ Len(stream) < MaxPending
    /\ l \in inputs
    /\ stream' = Append(stream, l)
    /\ left' = left - 1
    /\ UNCHANGED <<rev, conn, mpvPaused, panic, screen, sock, boot, state, mu, subs, chClosed, inputs, proc, ctxDone, lpc, snap,
                   lastLine, lastPub, ver, seen, display, draws, lastCall, sdpc>>

EngineExit ==
    /\ proc = "running"
    /\ proc' = "exited"
    /\ UNCHANGED <<rev, conn, mpvPaused, panic, screen, sock, boot, state, mu, subs, chClosed, stream, left, inputs, ctxDone, lpc,
                   snap, lastLine, lastPub, ver, seen, display, draws, lastCall, sdpc>>

(***************************************************************************)
(* The event listener.                                                     *)
(*   ListenerRead     one turn of the scanner loop up to the end of the    *)
(*                    locked section                                       *)
(*   ListenerPublish  the sends on the notification channels               *)
(*   ListenerEOF      scanner.Scan() returns false                         *)
(***************************************************************************)
HasRoom(ch) == Len(ch) < ChanCap

\* a send inside select { ... default: } never makes the listener wait
CanPublishBlocking(ch) == HasRoom(ch)
CanPublish(ch) == TRUE

\* the snapshot that is published: copied after the mutation
SnapshotStale(old, new) == old
SnapshotOf(old, new) == new

\* where the loop goes after a line that does not decode: on to the next Scan()
OnDecodeErrorStop == "exited"
OnDecodeError == "scan"

\* the number of the state after a locked section: one more iff a field changed
Bump(old, new) == IF new /= old THEN ver + 1 ELSE ver

\* the non-blocking send: the channel after it (a Go channel is a FIFO queue)
OfferFront(ch, s) == IF HasRoom(ch) THEN <<s>> \o ch ELSE ch
Offer(ch, s) == IF HasRoom(ch) THEN Append(ch, s) ELSE ch

ListenerReadA ==
    /\ rev = "A"
    /\ lpc = "scan"
    /\ stream /= <<>>
    /\ stream' = Tail(stream)
    /\ IF ctxDone
       THEN /\ lpc' = "exited"
            /\ UNCHANGED <<state, mu, snap, lastLine, ver>>
       ELSE LET line == Head(stream)
                r == processEvent(state, line)
            IN  /\ lastLine' = line
                /\ mu = "free"
                /\ mu' = "free"
                /\ IF line.ok /\ r.updated
                   THEN /\ state' = r.st
                        /\ ver' = Bump(state, r.st)
                        /\ snap' = Snap(SnapshotOf(state, r.st), Bump(state, r.st))
                        /\ lpc' = "publish"
                   ELSE /\ lpc' = IF line.ok THEN "scan" ELSE OnDecodeError
                        /\ UNCHANGED <<state, ver, snap>>
    /\ UNCHANGED <<rev, conn, mpvPaused, panic, screen, sock, boot, subs, chClosed, left, inputs, proc, ctxDone, lastPub,
                   seen, display, draws, lastCall, sdpc>>

ListenerPublishA ==
    /\ rev = "A"
    /\ lpc = "publish"
    /\ CanPublish(subs[1])
    /\ \E outcome \in {"sent", "skipped", "dropped"} :
          /\ outcome = "sent" => HasRoom(subs[1]) /\ ~chClosed
          /\ outcome = "skipped" => ctxDone
          /\ outcome = "dropped" => ~HasRoom(subs[1]) /\ ~ctxDone
          /\ subs' = IF outcome = "sent" THEN <<Offer(subs[1], snap)>> ELSE subs
          /\ lastPub' = <<outcome>>
    /\ lpc' = "scan"
    /\ UNCHANGED <<rev, conn, mpvPaused, panic, screen, sock, boot, state, mu, chClosed, stream, left, inputs, proc, ctxDone, snap,
                   lastLine, ver, seen, display, draws, lastCall, sdpc>>

ListenerReadB ==
    /\ rev = "B"
    /\ lpc = "scan"
    /\ stream /= <<>>
    /\ stream' = Tail(stream)
    /\ IF ctxDone
       THEN /\ lpc' = "exited"
            /\ UNCHANGED <<state, mu, snap, lastLine, ver>>
       ELSE LET line == Head(stream)
                new == handleEvent(state, line)
            IN  /\ lastLine' = line
                /\ IF line.ok
                   THEN /\ mu = "free"
                        /\ mu' = "w"
                        /\ state' = new
                        /\ ver' = Bump(state, new)
                        /\ snap' = Snap(SnapshotOf(state, new), Bump(state, new))
                        /\ lpc' = "publish"
                   ELSE /\ lpc' = OnDecodeError
                        /\ UNCHANGED <<state, mu, ver, snap>>
    /\ UNCHANGED <<rev, conn, mpvPaused, panic, screen, sock, boot, subs, chClosed, left, inputs, proc, ctxDone, lastPub,
                   seen, display, draws, lastCall, sdpc>>

ListenerPublishB ==
    /\ rev = "B"
    /\ lpc = "publish"
    /\ \A i \in 1..Len(subs) : CanPublish(subs[i])
    /\ subs' = [i \in 1..Len(subs) |-> Offer(subs[i], snap)]
    /\ lastPub' = [i \in 1..Len(subs) |-> IF HasRoom(subs[i]) THEN "sent" ELSE "dropped"]
    /\ mu' = "free"
    /\ lpc' = "scan"
    /\ UNCHANGED <<rev, conn, mpvPaused, panic, screen, sock, boot, state, chClosed, stream, left, inputs, proc, ctxDone, snap,
                   lastLine, ver, seen, display, draws, lastCall, sdpc>>

\* scanner.Scan() gives false at the end of the read source and the loop ends
NoListenerEOF == FALSE /\ UNCHANGED vars
ListenerEOF ==
    /\ lpc = "scan"
    /\ stream = <<>>
    /\ proc \in {"exited", "killed"}
    /\ lpc' = "exited"
    /\ UNCHANGED <<rev, conn, mpvPaused, panic, screen, sock, boot, state, mu, subs, chClosed, stream, left, inputs, proc, ctxDone,
                   snap, lastLine, lastPub, ver, seen, display, draws, lastCall, sdpc>>

ListenerRead == ListenerReadA \/ ListenerReadB
ListenerPublish == ListenerPublishA \/ ListenerPublishB
Listener == ListenerReadA \/ ListenerReadB \/ ListenerPublishA \/ ListenerPublishB
                \/ ListenerEOF

(***************************************************************************)
(* Player.GetState and Player.Subscribe.                                   *)
(***************************************************************************)
CanRead == mu = "free"
GetState == state

\* p.mu.Lock() goes through once nobody holds the lock
muLockSkipped == TRUE
muLock == mu = "free"

Subscribe ==
    /\ rev = "B"
    /\ muLock
    /\ Len(subs) < MaxSubs
    /\ subs' = Append(subs, <<>>)
    \* the first channel is the one ui.New asks for; ui.New then draws the status bar
    /\ draws' = IF Len(subs) = 0 THEN draws + 1 ELSE draws
    /\ UNCHANGED <<rev, conn, mpvPaused, panic, screen, sock, boot, state, mu, chClosed, stream, left, inputs, proc, ctxDone, lpc,
                   snap, lastLine, lastPub, ver, seen, display, lastCall, sdpc>>

(***************************************************************************)
(* The observers.                                                          *)
(*   revision A: the Bubble Tea model ("ui") and the MPRIS server          *)
(*   ("mpris") both receive from Player.StateChanges and show the snapshot *)
(*   they received;                                                        *)
(*   revision B: the tview UI ("tview") receives from its own channel,     *)
(*   queues a redraw, and the redraw shows Player.GetState().              *)
(***************************************************************************)
RecvA(o) ==
    /\ rev = "A"
    /\ o \in Observers("A")
    /\ subs[1] /= <<>>
    /\ subs' = <<Tail(subs[1])>>
    /\ seen' = [seen EXCEPT ![o] = Head(subs[1])]
    /\ display' = [display EXCEPT ![o] = Render(o, Head(subs[1]).s)]
    /\ UNCHANGED <<rev, conn, mpvPaused, panic, screen, sock, boot, state, mu, chClosed, stream, left, inputs, proc, ctxDone, lpc,
                   snap, lastLine, lastPub, ver, draws, lastCall, sdpc>>

RecvB ==
    /\ rev = "B"
    /\ Len(subs) >= 1
    /\ subs[1] /= <<>>
    /\ subs' = [subs EXCEPT ![1] = Tail(subs[1])]
    /\ seen' = [seen EXCEPT !["tview"] = Head(subs[1])]
    /\ draws' = draws + 1
    /\ UNCHANGED <<rev, conn, mpvPaused, panic, screen, sock, boot, state, mu, chClosed, stream, left, inputs, proc, ctxDone, lpc,
                   snap, lastLine, lastPub, ver, display, lastCall, sdpc>>

Draw ==
    /\ rev = "B"
    /\ draws > 0
    /\ CanRead
    /\ display' = [display EXCEPT !["tview"] = updateStatusBar(GetState)]
    /\ draws' = draws - 1
    /\ UNCHANGED <<rev, conn, mpvPaused, panic, screen, sock, boot, state, mu, subs, chClosed, stream, left, inputs, proc, ctxDone,
                   lpc, snap, lastLine, lastPub, ver, seen, lastCall, sdpc>>

(***************************************************************************)
(* Commands.  A command is the list written to the socket: its keyword and *)
(* its arguments.  Every command method records in lastCall what it was    *)
(* asked, whether it dialled, what it wrote and the error it returned.     *)
(***************************************************************************)
Res(err, dial, wrote) == [err |-> err, dial |-> dial, wrote |-> wrote]

\* a dial finds the engine listening: the socket file alone does not answer
ConnectableByFile == sock = "present"
Connectable == proc = "running" /\ sock = "present"

\* net.Dial / DialContext on the socket, then conn.Write
DialAndWrite(cmd) ==
    IF Connectable
    THEN { Res("", "ok", cmd), Res("write", "ok", NoCmd), Res("connect", "failed", NoCmd) }
    ELSE { Res("connect", "failed", NoCmd) }

\* Player.sendCommand: the results it can give.  Revision A dials under a
\* context derived from Player.ctx, so a cancelled context fails the dial at once;
\* Player.started is true of every Player a constructor returned.
sendCommand(cmd) ==
    IF rev = "A" /\ ctxDone THEN { Res("connect", "none", NoCmd) }
    ELSE DialAndWrite(cmd)

Returns(op, path, mode, n, res) ==
    /\ lastCall' = [op |-> op, path |-> path, mode |-> mode, n |-> n,
                    err |-> res.err, dial |-> res.dial, wrote |-> res.wrote]
    /\ UNCHANGED <<rev, conn, mpvPaused, panic, screen, sock, boot, state, mu, subs, chClosed, stream, left, inputs, proc, ctxDone,
                   lpc, snap, lastLine, lastPub, ver, seen, display, draws, sdpc>>

Invalid == Res("invalid", "none", NoCmd)

\* the arguments tried
PathArgs == { <<>>, <<Blank>>, <<Blank, Blank>>, TitleA, YoutuBe }
ModeArgs == { "replace", "append" }
VolumeArgs == { -5, -1, 0, 50, 100, 101, 130 }
SeekArgs == { -50, 100 }
StreamURL == <<"s">>

VolumeOKNoLower(v) == v <= MaxVolume
VolumeOK(v) == ~(v < MinVolume \/ v > MaxVolume)

PathOK(path) == TrimSpace(path) /= <<>>

\* revision A: Player.LoadFile
LoadFile(path, mode) ==
    /\ rev = "A"
    /\ \E res \in
          IF ~PathOK(path) THEN { Invalid }
          ELSE IF isYoutubeURL(path)
               THEN { Res("youtube", "none", NoCmd) }
                        \cup sendCommand(Cmd("loadfile", StreamURL, mode, 0))
               ELSE sendCommand(Cmd("loadfile", path, mode, 0)) :
          Returns("LoadFile", path, mode, 0, res)

\* revision B: Player.Play
Play(path) ==
    /\ rev = "B"
    /\ \E res \in sendCommand(Cmd("loadfile", path, "replace", 0)) :
          Returns("Play", path, "replace", 0, res)

TogglePause ==
    \E res \in sendCommand(Cmd("cycle", <<>>, "pause", 0)) :
        Returns("TogglePause", <<>>, "", 0, res)

Stop ==
    \E res \in sendCommand(Cmd("stop", <<>>, "", 0)) :
        Returns("Stop", <<>>, "", 0, res)

\* SetVolume only asks the engine; the new volume reaches the state when the
\* engine reports it
SetVolumeOptimistic(v) ==
    \E res \in
        IF ~VolumeOK(v) THEN { Invalid }
        ELSE sendCommand(Cmd("set_property", <<>>, "volume", v)) :
        /\ lastCall' = [op |-> "SetVolume", path |-> <<>>, mode |-> "", n |-> v,
                        err |-> res.err, dial |-> res.dial, wrote |-> res.wrote]
        /\ state' = IF res.err = "" THEN [state EXCEPT !.Volume = v] ELSE state
        /\ UNCHANGED <<rev, conn, mpvPaused, panic, screen, sock, boot, mu, subs, chClosed, stream, left, inputs, proc,
                       ctxDone, lpc, snap, lastLine, lastPub, ver, seen, display, draws,
                       sdpc>>
SetVolume(v) ==
    \E res \in
        IF ~VolumeOK(v) THEN { Invalid }
        ELSE sendCommand(Cmd("set_property", <<>>, "volume", v)) :
        Returns("SetVolume", <<>>, "", v, res)

Seek(x) ==
    \E res \in sendCommand(Cmd("seek", <<>>, "", x)) :
        Returns("Seek", <<>>, "", x, res)

(***************************************************************************)
(* One sendCommand call followed step by step on its own connection.       *)
(*   SendCall     the call begins: the command is marshalled               *)
(*   SendDial     net.Dial (B) / DialContext under the 3 s context (A)     *)
(*   SendWrite    conn.Write: it takes what the send buffer has room for   *)
(*                and goes on until every byte is taken; no deadline is    *)
(*                set on the connection in either revision                 *)
(*   EngineTakes  the engine reads what is in the buffer                   *)
(* Sizes are scaled: the send buffer holds SockBuf bytes, a command is one *)
(* byte and one more for each character of its path.                       *)
(***************************************************************************)
SockBuf == 2

Size(cmd) == 1 + Len(cmd.path)

\* the commands followed: what TogglePause and Play/LoadFile hand to sendCommand
SentCmds == { Cmd("cycle", <<>>, "pause", 0), Cmd("loadfile", TitleA, "replace", 0),
              Cmd("loadfile", YoutuBe, "replace", 0) }

\* the call returns err
SendReturns(err) ==
    /\ sendpc' = "returned"
    /\ lastCall' = [lastCall EXCEPT
                       !.err = err,
                       !.wrote = IF err = ""
                                 THEN Cmd(lastCall.op, lastCall.path, lastCall.mode,
                                          lastCall.n)
                                 ELSE NoCmd]

SendCall(cmd) ==
    /\ rev \in {"A", "B"}
    /\ sendpc \in {"idle", "returned"}
    /\ sendpc' = "dial"
    /\ pending' = Size(cmd)
    /\ sockbuf' = 0
    /\ lastCall' = [op |-> cmd.kw, path |-> cmd.path, mode |-> cmd.mode, n |-> cmd.n,
                    err |-> "", dial |-> "none", wrote |-> NoCmd]
    /\ UNCHANGED <<rev, mpvPaused, panic, screen, sock, boot, state, mu, subs, chClosed,
                   stream, left, inputs, proc, ctxDone, lpc, snap, lastLine, lastPub, ver,
                   seen, display, draws, sdpc>>

\* the dial gives a connection or an error at once; revision A also gives up
\* when its context is done
SendDial ==
    /\ sendpc = "dial"
    /\ \E ok \in BOOLEAN :
          /\ ok => Connectable /\ ~(rev = "A" /\ ctxDone)
          /\ IF ok
             THEN /\ sendpc' = "write"
                  /\ lastCall' = [lastCall EXCEPT !.dial = "ok"]
             ELSE SendReturns("connect")
    /\ UNCHANGED <<rev, pending, sockbuf, mpvPaused, panic, screen, sock, boot, state, mu,
                   subs, chClosed, stream, left, inputs, proc, ctxDone, lpc, snap, lastLine,
                   lastPub, ver, seen, display, draws, sdpc>>

\* room left in the send buffer
Room == SockBuf - sockbuf

\* the write can go on: the buffer has room, or the peer is gone and the write
\* fails; otherwise the goroutine is parked until the engine reads
WriteCanGoOn == Room > 0 \/ proc /= "running"

SendWrite ==
    /\ sendpc = "write"
    /\ WriteCanGoOn
    /\ IF proc /= "running"
       THEN /\ SendReturns("write")
            /\ UNCHANGED <<pending, sockbuf>>
       ELSE LET k == IF pending <= Room THEN pending ELSE Room
            IN  /\ sockbuf' = sockbuf + k
                /\ pending' = pending - k
                /\ IF pending = k THEN SendReturns("")
                                  ELSE UNCHANGED <<sendpc, lastCall>>
    /\ UNCHANGED <<rev, mpvPaused, panic, screen, sock, boot, state, mu, subs, chClosed,
                   stream, left, inputs, proc, ctxDone, lpc, snap, lastLine, lastPub, ver,
                   seen, display, draws, sdpc>>

\* the engine reads the connection; nothing makes it do so
EngineTakes ==
    /\ proc = "running"
    /\ sockbuf > 0
    /\ sockbuf' = 0
    /\ UNCHANGED <<rev, sendpc, pending, mpvPaused, panic, screen, sock, boot, state, mu,
                   subs, chClosed, stream, left, inputs, proc, ctxDone, lpc, snap, lastLine,
                   lastPub, ver, seen, display, draws, lastCall, sdpc>>

(***************************************************************************)
(* The MPRIS server's Pause and Play beside the engine (revision A).       *)
(*   EngineAnnounces  the engine's first reports after observe_property:   *)
(*                    its pause property and the title it plays            *)
(*   MprisPause       Server.Pause: reads the PlaybackStatus property that *)
(*                    watchPlayerState last set and, if it is "Playing",   *)
(*                    calls TogglePause                                    *)
(*   MprisPlay        Server.Play: the same with "Paused"                  *)
(* An engine that takes "cycle pause" flips its pause property and reports *)
(* the new value.                                                          *)
(***************************************************************************)
MprisLines == 4

PauseLine(b) == Ev("property-change", "pause", BoolData(b))

EngineAnnounces ==
    /\ proc = "running"
    /\ left = MprisLines
    /\ stream' = <<PauseLine(mpvPaused),
                   Ev("property-change", "media-title", StrData(TitleDirA))>>
    /\ left' = left - 1
    /\ UNCHANGED <<rev, conn, mpvPaused, panic, screen, sock, boot, state, mu, subs,
                   chClosed, inputs, proc, ctxDone, lpc, snap, lastLine, lastPub, ver, seen,
                   display, draws, lastCall, sdpc>>

\* Player.TogglePause and what the engine does with the command
CyclePause ==
    /\ left > 0
    /\ \E res \in sendCommand(Cmd("cycle", <<>>, "pause", 0)) :
          /\ lastCall' = [op |-> "TogglePause", path |-> <<>>, mode |-> "", n |-> 0,
                          err |-> res.err, dial |-> res.dial, wrote |-> res.wrote]
          /\ IF res.err = ""
             THEN /\ mpvPaused' = ~mpvPaused
                  /\ stream' = Append(stream, PauseLine(~mpvPaused))
                  /\ left' = left - 1
             ELSE UNCHANGED <<mpvPaused, stream, left>>
    /\ UNCHANGED <<rev, conn, panic, screen, sock, boot, state, mu, subs, chClosed, inputs,
                   proc, ctxDone, lpc, snap, lastLine, lastPub, ver, seen, display, draws,
                   sdpc>>

MprisPause ==
    /\ rev = "A"
    /\ display["mpris"].status = "Playing"
    /\ CyclePause

MprisPlay ==
    /\ rev = "A"
    /\ display["mpris"].status = "Paused"
    /\ CyclePause

(***************************************************************************)
(* The volume keys of the tview UI (revision B): '+' / '=' and '-' read    *)
(* Player.GetState() and ask for the volume one step up or down.           *)
(*   EngineVolume  the engine reports the volume a set_property gave it    *)
(* The engine also reports volumes set by other means (its own key         *)
(* bindings, another client): VolumeLines.                                 *)
(***************************************************************************)
VolumeStep == 5

VolumeLines ==
    { Ev("property-change", "volume", NumData(980)),
      Ev("property-change", "volume", NumData(30)) }

VolumeUp ==
    /\ rev = "B"
    /\ CanRead
    /\ GetState.Volume < MaxVolume
    /\ SetVolume(GetState.Volume + VolumeStep)

VolumeDown ==
    /\ rev = "B"
    /\ CanRead
    /\ GetState.Volume > MinVolume
    /\ SetVolume(GetState.Volume - VolumeStep)

EngineVolume ==
    /\ proc = "running"
    /\ left > 0
    /\ Len(stream) < MaxPending
    /\ lastCall.op = "SetVolume"
    /\ lastCall.wrote /= NoCmd
    /\ stream' = Append(stream, Ev("property-change", "volume", NumData(lastCall.n * 10)))
    /\ left' = left - 1
    /\ UNCHANGED <<rev, conn, mpvPaused, panic, screen, sock, boot, state, mu, subs,
                   chClosed, inputs, proc, ctxDone, lpc, snap, lastLine, lastPub, ver, seen,
                   display, draws, lastCall, sdpc>>

(***************************************************************************)
(* The list UIs.  A list is a sequence of paths or URLs; Go indexes it     *)
(* from 0, so the item under the cursor is list[cursor + 1], and indexing  *)
(* outside 0..len-1 ends the program with a run-time panic.                *)
(***************************************************************************)
MaxItems == 2

\* n distinct names made of the character c
Names(c, n) == [i \in 1..n |-> [k \in 1..i |-> c]]

\* the song lists and station lists a configuration may give
SongLists == { Names("f", n) : n \in 0..MaxItems }
StationLists == { Names("r", n) : n \in 0..MaxItems }

InRange(i, list) == 0 <= i /\ i < Len(list)

(***************************************************************************)
(* The wrap-around cursor UI (Model.Update over songs and stations), on    *)
(* the first player, which writes every command on the one connection its *)
(* constructor dialled.                                                    *)
(***************************************************************************)
\* the list of the view shown
Shown == IF currentView = "radio" THEN stations ELSE files

\* Player.sendCommand of the first player: Conn.Write
OldSend(cmd) ==
    IF proc = "running" THEN { Res("", "none", cmd), Res("write", "none", NoCmd) }
    ELSE { Res("write", "none", NoCmd) }

WrapTab ==
    /\ rev = "0"
    /\ panic = ""
    /\ currentView' = IF currentView = "files" THEN "radio" ELSE "files"
    /\ cursor' = 0
    /\ UNCHANGED <<rev, conn, mpvPaused, panic, stations, files, visible, isPlaying, sock,
                   boot, state, mu, subs, chClosed, stream, left, inputs, proc, ctxDone, lpc,
                   snap, lastLine, lastPub, ver, seen, display, draws, lastCall, sdpc>>

WrapUp ==
    /\ rev = "0"
    /\ panic = ""
    /\ cursor' = IF cursor - 1 < 0 THEN Len(Shown) - 1 ELSE cursor - 1
    /\ UNCHANGED <<rev, conn, mpvPaused, panic, currentView, stations, files, visible,
                   isPlaying, sock, boot, state, mu, subs, chClosed, stream, left, inputs,
                   proc, ctxDone, lpc, snap, lastLine, lastPub, ver, seen, display, draws,
                   lastCall, sdpc>>

WrapDown ==
    /\ rev = "0"
    /\ panic = ""
    /\ cursor' = IF cursor + 1 >= Len(Shown) THEN 0 ELSE cursor + 1
    /\ UNCHANGED <<rev, conn, mpvPaused, panic, currentView, stations, files, visible,
                   isPlaying, sock, boot, state, mu, subs, chClosed, stream, left, inputs,
                   proc, ctxDone, lpc, snap, lastLine, lastPub, ver, seen, display, draws,
                   lastCall, sdpc>>

\* "enter": model.stations[model.cursor].Url or model.songs[model.cursor], with
\* no check of the cursor against the list
WrapEnter ==
    /\ rev = "0"
    /\ panic = ""
    /\ IF InRange(cursor, Shown)
       THEN /\ \E res \in OldSend(Cmd("loadfile", Shown[cursor + 1], "replace", 0)) :
                  lastCall' = [op |-> "LoadFile", path |-> Shown[cursor + 1],
                               mode |-> "replace", n |-> 0, err |-> res.err,
                               dial |-> res.dial, wrote |-> res.wrote]
            /\ isPlaying' = TRUE
            /\ UNCHANGED panic
       ELSE /\ panic' = "index out of range"
            /\ UNCHANGED <<lastCall, isPlaying>>
    /\ UNCHANGED <<rev, conn, mpvPaused, currentView, cursor, stations, files, visible, sock,
                   boot, state, mu, subs, chClosed, stream, left, inputs, proc, ctxDone, lpc,
                   snap, lastLine, lastPub, ver, seen, display, draws, sdpc>>

WrapSpace ==
    /\ rev = "0"
    /\ panic = ""
    /\ \E res \in OldSend(Cmd("cycle", <<>>, "pause", 0)) :
          lastCall' = [op |-> "TogglePause", path |-> <<>>, mode |-> "", n |-> 0,
                       err |-> res.err, dial |-> res.dial, wrote |-> res.wrote]
    /\ isPlaying' = ~isPlaying
    /\ UNCHANGED <<rev, conn, mpvPaused, panic, currentView, cursor, stations, files,
                   visible, sock, boot, state, mu, subs, chClosed, stream, left, inputs, proc,
                   ctxDone, lpc, snap, lastLine, lastPub, ver, seen, display, draws, sdpc>>

(***************************************************************************)
(* The Bubble Tea UI (ui.Model with the radio and the local-files view),   *)
(* on the player of revision A.                                            *)
(***************************************************************************)
\* a station may be configured with no URL
TeaStationLists == StationLists \cup { <<<<"r">>, <<>>>> }

\* Model.getItemCount
getItemCount == IF currentView = "radio" THEN Len(stations) ELSE Len(files)

\* how far "down" may take the cursor
DownLimitOff == getItemCount
DownLimit == getItemCount - 1

TeaSwitchView ==
    /\ rev = "A"
    /\ currentView' = IF currentView = "radio" THEN "files" ELSE "radio"
    /\ cursor' = 0
    /\ UNCHANGED <<rev, conn, mpvPaused, panic, stations, files, visible, isPlaying, sock,
                   boot, state, mu, subs, chClosed, stream, left, inputs, proc, ctxDone, lpc,
                   snap, lastLine, lastPub, ver, seen, display, draws, lastCall, sdpc>>

TeaUp ==
    /\ rev = "A"
    /\ cursor' = IF cursor > 0 THEN cursor - 1 ELSE cursor
    /\ UNCHANGED <<rev, conn, mpvPaused, panic, currentView, stations, files, visible,
                   isPlaying, sock, boot, state, mu, subs, chClosed, stream, left, inputs,
                   proc, ctxDone, lpc, snap, lastLine, lastPub, ver, seen, display, draws,
                   lastCall, sdpc>>

TeaDown ==
    /\ rev = "A"
    /\ cursor' = IF cursor < DownLimit THEN cursor + 1 ELSE cursor
    /\ UNCHANGED <<rev, conn, mpvPaused, panic, currentView, stations, files, visible,
                   isPlaying, sock, boot, state, mu, subs, chClosed, stream, left, inputs,
                   proc, ctxDone, lpc, snap, lastLine, lastPub, ver, seen, display, draws,
                   lastCall, sdpc>>

\* Model.playSelected: the path it settles on ("" when the cursor is past the
\* list), and LoadFile only for a path that is not empty
SelectedPath ==
    IF currentView = "radio"
    THEN IF cursor < Len(stations) THEN stations[cursor + 1] ELSE <<>>
    ELSE IF cursor < Len(files) THEN files[cursor + 1] ELSE <<>>

playSelected ==
    /\ rev = "A"
    /\ IF SelectedPath /= <<>>
       THEN LoadFile(SelectedPath, "replace")
       ELSE UNCHANGED vars

TeaPause ==
    /\ rev = "A"
    /\ TogglePause

(***************************************************************************)
(* Model.getVisibleRange: the window of local files that View draws.       *)
(***************************************************************************)
visibleItems == 20

\* if start < 0 { start = 0 }
NoClamp(x) == x
ClampStart(x) == IF x < 0 THEN 0 ELSE x

getVisibleRange(cur, n) ==
    LET start == ClampStart(cur - visibleItems \div 2)
        end == start + visibleItems
    IN  IF end > n THEN <<ClampStart(n - visibleItems), n>>
        ELSE <<start, end>>

\* Model.View -> renderContent in the local-files view
TeaView ==
    /\ rev = "A"
    /\ currentView = "files"
    /\ visible' = getVisibleRange(cursor, Len(files))
    /\ UNCHANGED <<rev, conn, mpvPaused, panic, currentView, cursor, stations, files,
                   isPlaying, sock, boot, state, mu, subs, chClosed, stream, left, inputs,
                   proc, ctxDone, lpc, snap, lastLine, lastPub, ver, seen, display, draws,
                   lastCall, sdpc>>

(***************************************************************************)
(* Player.Shutdown, one call.                                              *)
(*   ShutdownStart  p.cancel()                                             *)
(*   CtxKill        what cancelling does to a process started with         *)
(*                  exec.CommandContext                                    *)
(*   ShutdownQuit   the "quit" command; revision A kills the process if    *)
(*                  the command fails or the 2 s timer fires first         *)
(*   ShutdownWait   revision A: wg.Wait(), cmd.Wait(), close(StateChanges),*)
(*                  cleanupSocket(); revision B: cmd.Wait(), cleanupSocket *)
(***************************************************************************)
Quit == Cmd("quit", <<>>, "", 0)

\* os.Remove on the socket path: it removes the file, or fails for a reason
\* other than the file not being there
cleanupSocket == {"ok", "fail"}

\* Process.Kill: the process after it
killProcess == IF proc = "running" THEN "killed" ELSE proc

\* exec.CommandContext: once Player.ctx is cancelled the process is killed
\* (exec.Command would leave it running)
NoCtxKill == FALSE /\ UNCHANGED vars
CtxKill ==
    /\ ctxDone
    /\ proc = "running"
    /\ proc' = "killed"
    /\ UNCHANGED <<rev, conn, mpvPaused, panic, screen, sock, boot, state, mu, subs, chClosed, stream, left, inputs, ctxDone,
                   lpc, snap, lastLine, lastPub, ver, seen, display, draws, lastCall, sdpc>>

ShutdownStart ==
    /\ sdpc = "idle"
    /\ ctxDone' = TRUE
    /\ sdpc' = "quit"
    /\ UNCHANGED <<rev, conn, mpvPaused, panic, screen, sock, boot, state, mu, subs, chClosed, stream, left, inputs, proc, lpc,
                   snap, lastLine, lastPub, ver, seen, display, draws, lastCall>>

ShutdownQuit ==
    /\ sdpc = "quit"
    /\ \E res \in sendCommand(Quit), timer \in BOOLEAN :
          /\ lastCall' = [op |-> "Shutdown", path |-> <<>>, mode |-> "", n |-> 0,
                          err |-> res.err, dial |-> res.dial, wrote |-> res.wrote]
          /\ proc' = IF rev = "A" /\ (res.err /= "" \/ timer) THEN killProcess ELSE proc
    /\ sdpc' = "wait"
    /\ UNCHANGED <<rev, conn, mpvPaused, panic, screen, sock, boot, state, mu, subs, chClosed, stream, left, inputs, ctxDone, lpc,
                   snap, lastLine, lastPub, ver, seen, display, draws>>

\* p.wg.Wait(): returns once the listener goroutine has exited
wgWaitSkipped == TRUE
wgWait == lpc = "exited"

ShutdownWait ==
    /\ sdpc = "wait"
    /\ proc \in {"exited", "killed"}
    /\ rev = "A" => wgWait
    /\ chClosed' = (rev = "A")
    /\ \E r \in cleanupSocket : sock' = IF r = "ok" THEN "absent" ELSE sock
    /\ sdpc' = "done"
    /\ UNCHANGED <<rev, conn, mpvPaused, panic, screen, boot, state, mu, subs, stream, left, inputs, proc, ctxDone, lpc,
                   snap, lastLine, lastPub, ver, seen, display, draws, lastCall>>

Shutdown == ShutdownStart \/ ShutdownQuit \/ ShutdownWait

\* Shutdown called again after the first call returned.
\* Revision A: p.started is still true, so the call goes on: cancel() again does
\* nothing, the quit fails on the cancelled context, killProcess finds the
\* process gone, wg.Wait() and cmd.Wait() return at once, and then
\* close(p.StateChanges) runs on the channel the first call closed.
ShutdownAgainA ==
    /\ rev = "A"
    /\ sdpc = "done"
    /\ panic = ""
    /\ \E res \in sendCommand(Quit) :
          lastCall' = [op |-> "Shutdown", path |-> <<>>, mode |-> "", n |-> 0,
                       err |-> res.err, dial |-> res.dial, wrote |-> res.wrote]
    /\ IF chClosed
       THEN /\ panic' = "close of closed channel"
            /\ UNCHANGED <<sdpc, sock>>
       ELSE /\ \E r \in cleanupSocket : sock' = IF r = "ok" THEN "absent" ELSE sock
            /\ sdpc' = "again"
            /\ UNCHANGED panic
    /\ UNCHANGED <<rev, conn, mpvPaused, screen, boot, state, mu, subs, chClosed, stream,
                   left, inputs, proc, ctxDone, lpc, snap, lastLine, lastPub, ver, seen,
                   display, draws>>

\* Revision B: cancel() again does nothing, the quit finds nobody to dial,
\* cmd.Wait() returns at once, cleanupSocket() runs again, and the call returns.
ShutdownAgainB ==
    /\ rev = "B"
    /\ sdpc = "done"
    /\ \E res \in sendCommand(Quit) :
          lastCall' = [op |-> "Shutdown", path |-> <<>>, mode |-> "", n |-> 0,
                       err |-> res.err, dial |-> res.dial, wrote |-> res.wrote]
    /\ \E r \in cleanupSocket : sock' = IF r = "ok" THEN "absent" ELSE sock
    /\ sdpc' = "again"
    /\ UNCHANGED <<rev, conn, mpvPaused, panic, screen, boot, state, mu, subs, chClosed,
                   stream, left, inputs, proc, ctxDone, lpc, snap, lastLine, lastPub, ver,
                   seen, display, draws>>

(***************************************************************************)
(* Construction: NewPlayer() and start() (revision A), New(socketPath) and *)
(* start() (revision B), and the first NewPlayer() (revision 0).           *)
(*   StartCleanup   cleanupSocket()                                        *)
(*   StartSpawn     cmd.Start()                                            *)
(*   StartWait      waitForSocket()                                        *)
(*   OldSpawn, OldDial   revision 0: Start, Sleep, one Dial                *)
(*   StartObserve   revision A: one observe_property of                    *)
(*                  setupPropertyObservation                               *)
(*   StartListener  revision A: go p.eventLoop(stdout)                     *)
(*   ObserveB       revision B: one observe_property of the goroutine      *)
(*                  observeProperties, whose errors are passed over        *)
(*   ListenerDialB  revision B: eventLoop's own Dial                       *)
(* A constructor that fails cancels the context it made.                   *)
(***************************************************************************)
\* what construction leaves alone
settled == <<state, mu, subs, chClosed, stream, left, inputs, snap, lastLine, lastPub,
          ver, seen, display, draws, lastCall, sdpc>>

InitStart ==
    /\ rev \in {"0", "A", "B"}
    /\ InitFields
    /\ inputs = {}
    /\ left = 0
    /\ sock \in {"absent", "stale"}
    /\ startpc = IF rev = "0" THEN "spawn" ELSE "cleanup"
    /\ observed = <<>>
    /\ startErr = ""
    /\ proc = "none"
    /\ lpc = "none"
    /\ mpvPaused = FALSE
    /\ ConnIdle
    /\ NoScreen

\* start() returns an error, and the constructor cancels the context
Fails(err) ==
    /\ startErr' = err
    /\ startpc' = "failed"
    /\ ctxDone' = TRUE

\* the engine creates its socket and listens; over a file left behind it may
\* do so or not
EngineListen ==
    /\ proc = "running"
    /\ sock \in {"absent", "stale"}
    /\ sock' = "present"
    /\ UNCHANGED <<rev, conn, mpvPaused, panic, screen, boot, proc, ctxDone, lpc, settled>>

StartCleanup ==
    /\ startpc = "cleanup"
    /\ \E r \in cleanupSocket :
          IF r = "ok"
          THEN /\ sock' = "absent"
               /\ startpc' = "spawn"
               /\ UNCHANGED <<startErr, ctxDone>>
          ELSE /\ Fails("cleanup")
               /\ UNCHANGED sock
    /\ UNCHANGED <<rev, conn, mpvPaused, panic, screen, observed, proc, lpc, settled>>

StartSpawn ==
    /\ rev /= "0"
    /\ startpc = "spawn"
    /\ \E ok \in BOOLEAN :
          IF ok
          THEN /\ proc' = "running"
               /\ startpc' = "wait"
               /\ UNCHANGED <<startErr, ctxDone>>
          ELSE /\ Fails("spawn")
               /\ UNCHANGED proc
    /\ UNCHANGED <<rev, conn, mpvPaused, panic, screen, sock, observed, lpc, settled>>

\* waitForSocket() returns nil once a dial succeeds, or the timeout fires
StartWait ==
    /\ rev /= "0"
    /\ startpc = "wait"
    /\ \E ready \in BOOLEAN :
          /\ ready => Connectable
          /\ IF ready
             THEN /\ startpc' = IF rev = "A" THEN "observe" ELSE "running"
                  /\ lpc' = IF rev = "B" THEN "observe" ELSE lpc
                  /\ UNCHANGED <<startErr, ctxDone, proc>>
             ELSE /\ Fails("socket")
                  /\ proc' = killProcess
                  /\ UNCHANGED lpc
    /\ UNCHANGED <<rev, conn, mpvPaused, panic, screen, sock, observed, settled>>

\* revision 0: cmd.Start()
OldSpawn ==
    /\ rev = "0"
    /\ startpc = "spawn"
    /\ \E ok \in BOOLEAN :
          /\ proc' = IF ok THEN "running" ELSE proc
          /\ startpc' = IF ok THEN "wait" ELSE "failed"
          /\ startErr' = IF ok THEN startErr ELSE "spawn"
    /\ UNCHANGED <<rev, conn, mpvPaused, panic, screen, sock, observed, ctxDone, lpc, settled>>

\* revision 0: time.Sleep, then net.Dial, once
OldDial ==
    /\ rev = "0"
    /\ startpc = "wait"
    /\ \E ok \in BOOLEAN :
          /\ ok => Connectable
          /\ startpc' = IF ok THEN "running" ELSE "failed"
          /\ startErr' = IF ok THEN startErr ELSE "connect"
    /\ UNCHANGED <<rev, conn, mpvPaused, panic, screen, sock, observed, proc, ctxDone, lpc, settled>>

ObserveCmd(i) == Cmd("observe_property", <<>>, Properties[i], i)

StartObserve ==
    /\ rev = "A"
    /\ startpc = "observe"
    /\ Len(observed) < Len(Properties)
    /\ LET i == Len(observed) + 1
       IN  \E res \in sendCommand(ObserveCmd(i)) :
              /\ observed' = Append(observed, Observe(i, res.err = ""))
              /\ IF res.err = ""
                 THEN UNCHANGED <<startpc, startErr, ctxDone, proc>>
                 ELSE /\ Fails("observe")
                      /\ proc' = killProcess
    /\ UNCHANGED <<rev, conn, mpvPaused, panic, screen, sock, lpc, settled>>

StartListener ==
    /\ rev = "A"
    /\ startpc = "observe"
    /\ Len(observed) = Len(Properties)
    /\ lpc' = "scan"
    /\ startpc' = "running"
    /\ UNCHANGED <<rev, conn, mpvPaused, panic, screen, sock, observed, startErr, proc, ctxDone, settled>>

\* ranging over a Go map visits the properties in any order
ObserveB ==
    /\ rev = "B"
    /\ lpc = "observe"
    /\ \E i \in 1..Len(Properties) :
          /\ \A k \in 1..Len(observed) : observed[k].id /= i
          /\ \E res \in sendCommand(ObserveCmd(i)) :
                observed' = Append(observed, Observe(i, res.err = ""))
    /\ UNCHANGED <<rev, conn, mpvPaused, panic, screen, sock, startpc, startErr, proc, ctxDone, lpc, settled>>

ListenerDialB ==
    /\ rev = "B"
    /\ lpc = "observe"
    /\ Len(observed) = Len(Properties)
    /\ \E ok \in BOOLEAN :
          /\ ok => Connectable
          /\ lpc' = IF ok THEN "scan" ELSE "exited"
    /\ UNCHANGED <<rev, conn, mpvPaused, panic, screen, sock, boot, proc, ctxDone, settled>>

NextStart ==
    \/ StartCleanup
    \/ StartSpawn
    \/ StartWait
    \/ OldSpawn
    \/ OldDial
    \/ StartObserve
    \/ StartListener
    \/ ObserveB
    \/ ListenerDialB
    \/ EngineListen
    \/ EngineExit

SpecStart == InitStart /\ [][NextStart]_vars

(***************************************************************************)
(* Specifications.                                                         *)
(***************************************************************************)
NextListen ==
    \/ \E l \in inputs : Emit(l)
    \/ EngineExit
    \/ ListenerReadA
    \/ ListenerPublishA
    \/ ListenerReadB
    \/ ListenerPublishB
    \/ ListenerEOF
    \/ Subscribe
    \/ \E o \in Observers("A") : RecvA(o)
    \/ RecvB
    \/ Draw

Next == NextListen

Spec == Init /\ [][Next]_vars

\* the command methods and Shutdown, beside an engine that writes a few lines
CmdLines == 1

InitCmd ==
    /\ InitCommon
    /\ NoScreen
    /\ inputs = PauseLines
    /\ left = CmdLines

NextCmd ==
    \/ NextListen
    \/ \E path \in PathArgs, mode \in ModeArgs : LoadFile(path, mode)
    \/ \E path \in PathArgs : Play(path)
    \/ TogglePause
    \/ Stop
    \/ \E v \in VolumeArgs : SetVolume(v)
    \/ \E x \in SeekArgs : Seek(x)
    \/ ShutdownStart
    \/ ShutdownQuit
    \/ ShutdownWait
    \/ CtxKill

SpecCmd == InitCmd /\ [][NextCmd]_vars

\* a Shutdown call that has begun goes on, the runtime delivers the kill that
\* cancelling asks for, and the listener goroutine gets to run; nothing is
\* assumed of the engine: it need not exit, nor take any command
ShutdownRuns == ShutdownQuit \/ ShutdownWait

\* Shutdown, once and again, beside the listener, the observers and callers of
\* a command
NextStop ==
    \/ NextListen
    \/ TogglePause
    \/ ShutdownStart
    \/ ShutdownQuit
    \/ ShutdownWait
    \/ ShutdownAgainA
    \/ ShutdownAgainB
    \/ CtxKill

SpecStop ==
    InitCmd /\ [][NextStop]_vars
        /\ WF_vars(ShutdownRuns) /\ WF_vars(CtxKill) /\ WF_vars(Listener)

\* one command call at a time, followed through its dial and its write, beside
\* an engine that reads or does not and a caller of Shutdown
InitSend ==
    /\ InitCommon
    /\ NoScreen
    /\ inputs = {}
    /\ left = 0

NextSend ==
    \/ \E cmd \in SentCmds : SendCall(cmd)
    \/ SendDial
    \/ SendWrite
    \/ EngineTakes
    \/ EngineExit
    \/ ShutdownStart
    \/ CtxKill

SpecSend == InitSend /\ [][NextSend]_vars

\* the MPRIS server and the Bubble Tea UI on the shared channel, a D-Bus client
\* calling Pause and Play, and the engine
InitMpris ==
    /\ InitCommon
    /\ NoScreen
    /\ rev = "A"
    /\ inputs = {}
    /\ left = MprisLines

NextMpris ==
    \/ EngineAnnounces
    \/ MprisPause
    \/ MprisPlay
    \/ ListenerReadA
    \/ ListenerPublishA
    \/ \E o \in Observers("A") : RecvA(o)

SpecMpris == InitMpris /\ [][NextMpris]_vars

\* the tview UI's volume keys beside the listener and an engine that reports
\* its volume
KeyLines == 3

InitKeys ==
    /\ InitCommon
    /\ NoScreen
    /\ rev = "B"
    /\ inputs = VolumeLines
    /\ left = KeyLines

NextKeys ==
    \/ \E l \in inputs : Emit(l)
    \/ EngineVolume
    \/ ListenerReadB
    \/ ListenerPublishB
    \/ VolumeUp
    \/ VolumeDown

SpecKeys == InitKeys /\ [][NextKeys]_vars

\* the wrap-around UI over the lists of a configuration, on a first player
\* whose constructor has returned
InitWrap ==
    /\ rev = "0"
    /\ InitFields
    /\ sock = "present"
    /\ startpc = "running"
    /\ observed = <<>>
    /\ startErr = ""
    /\ proc = "running"
    /\ lpc = "none"
    /\ mpvPaused = FALSE
    /\ ConnIdle
    /\ inputs = {}
    /\ left = 0
    /\ currentView = "files"
    /\ cursor = 0
    /\ stations \in StationLists
    /\ files \in SongLists
    /\ visible = <<0, 0>>
    /\ isPlaying = FALSE

NextWrap ==
    \/ WrapTab
    \/ WrapUp
    \/ WrapDown
    \/ WrapEnter
    \/ WrapSpace
    \/ EngineExit

SpecWrap == InitWrap /\ [][NextWrap]_vars

\* the Bubble Tea UI over the lists of a configuration
InitTea ==
    /\ InitCommon
    /\ rev = "A"
    /\ inputs = {}
    /\ left = 0
    /\ currentView = "radio"
    /\ cursor = 0
    /\ stations \in TeaStationLists
    /\ files \in SongLists
    /\ visible = <<0, 0>>
    /\ isPlaying = FALSE

NextTea ==
    \/ TeaSwitchView
    \/ TeaUp
    \/ TeaDown
    \/ playSelected
    \/ TeaPause
    \/ EngineExit

SpecTea == InitTea /\ [][NextTea]_vars

\* the local-files view over a list of any length up to MaxFiles, the cursor
\* anywhere on it, and nothing drawn yet
MaxFiles == 32

NotDrawn == <<-1, -1>>

InitRange ==
    /\ InitCommon
    /\ rev = "A"
    /\ inputs = {}
    /\ left = 0
    /\ currentView = "files"
    /\ stations = <<>>
    /\ \E n \in 0..MaxFiles :
          /\ files = Names("f", n)
          /\ cursor \in 0..(IF n > 1 THEN n - 1 ELSE 0)
    /\ visible = NotDrawn
    /\ isPlaying = FALSE

NextRange ==
    \/ TeaView
    \/ TeaUp
    \/ TeaDown

SpecRange == InitRange /\ [][NextRange]_vars

\* the listener is a goroutine of its own: it gets to run
LiveLines == 2

InitLive ==
    /\ InitCommon
    /\ NoScreen
    /\ inputs = PauseLines \cup {Garbage}
    /\ left = LiveLines

SpecLive == InitLive /\ [][NextListen]_vars /\ WF_vars(Listener)

\* an engine that keeps reporting pause, enough to fill a channel nobody reads
NextFlood ==
    \/ \E l \in inputs : Emit(l)
    \/ EngineExit
    \/ ListenerReadA
    \/ ListenerPublishA
    \/ ListenerReadB
    \/ ListenerPublishB
    \/ ListenerEOF
    \/ Subscribe

SpecFlood == InitFlood /\ [][NextFlood]_vars

(***************************************************************************)
(* Steps and states the properties speak of.                               *)
(***************************************************************************)
\* the listener takes line l off the stream and handles it
Processing(l) ==
    /\ lpc = "scan"
    /\ ~ctxDone
    /\ stream /= <<>>
    /\ Head(stream) = l
    /\ stream' = Tail(stream)

\* a command method returned
Called(op) == lastCall' /= lastCall /\ lastCall'.op = op

CommandOps == {"LoadFile", "Play", "TogglePause", "Stop", "SetVolume", "Seek"}

\* the engine has written all it will, the listener has handled it, and every
\* notification that was sent has been taken off its channel and drawn
Quiet ==
    /\ left = 0
    /\ stream = <<>>
    /\ lpc /= "publish"
    /\ \A i \in 1..Len(subs) : subs[i] = <<>>
    /\ draws = 0

NoDrop == \A i \in 1..Len(lastPub) : lastPub[i] /= "dropped"

(***************************************************************************)
(* Properties.                                                             *)
(***************************************************************************)

\* C1: SetVolume(v) with v < 0 or v > 100 returns an error, dials no
\* connection, writes no command and leaves the PlaybackState and the
\* notification channels as they were, in both revisions.
C1_SetVolumeRejectsOutOfRange ==
    [][(Called("SetVolume") /\ (lastCall'.n < 0 \/ lastCall'.n > 100))
          => /\ lastCall'.err = "invalid"
             /\ lastCall'.dial = "none"
             /\ lastCall'.wrote = NoCmd
             /\ state' = state
             /\ subs' = subs]_vars

C1_Witness ==
    /\ lastCall.op = "SetVolume"
    /\ lastCall.n < 0
    /\ lastCall.err = "invalid"
    /\ state /= InitState(rev)

\* C2: the stored volume is within 0..100 in every reachable state.
C2_VolumeInRange == state.Volume >= 0 /\ state.Volume <= 100

\* C3: no "loadfile" command is written with a path that is empty after
\* trimming, and a load operation given such a path returns an error without
\* dialling.
C3_NoBlankLoadfile ==
    /\ lastCall.wrote.kw = "loadfile" => TrimSpace(lastCall.wrote.path) /= <<>>
    /\ (lastCall.op \in {"LoadFile", "Play"} /\ TrimSpace(lastCall.path) = <<>>)
          => lastCall.err /= "" /\ lastCall.dial = "none"

\* C4: handling a "pause" property-change with boolean data b sets IsPlaying
\* to ~b and touches no other field; with data of another type it leaves the
\* PlaybackState as it was.
C4_PauseEvent ==
    [][\A l \in AllLines :
          (Processing(l) /\ l.ok /\ l.event = "property-change" /\ l.name = "pause")
             => IF l.data.t = "bool"
                THEN state' = [state EXCEPT !.IsPlaying = ~l.data.b]
                ELSE state' = state]_vars

C4_Witness ==
    /\ lastLine = Ev("property-change", "pause", BoolData(TRUE))
    /\ ~state.IsPlaying
    /\ ver = 2

\* C5: after the listener handles an "idle" or an "end-file" event, IsPlaying
\* is false.
C5_IdleOrEndFileStops ==
    [][\A l \in AllLines :
          (Processing(l) /\ l.ok /\ l.event \in {"idle", "end-file"})
             => ~state'.IsPlaying]_vars
\* C6: a line that is not valid JSON changes no state and sends nothing, the
\* listener stays in its loop, and a well-formed line that follows it on the
\* stream is handled.
C6_GarbageIsSkipped ==
    /\ [][Processing(Garbage)
            => /\ state' = state
               /\ ver' = ver
               /\ subs' = subs
               /\ lpc' = "scan"]_vars
    /\ \A l \in AllLines :
          l.ok => ((lastLine = Garbage /\ lpc = "scan" /\ stream /= <<>> /\ Head(stream) = l)
                      ~> (lastLine = l))

C6_Witness ==
    /\ lastLine = Garbage
    /\ lpc = "scan"
    /\ stream = <<Ev("property-change", "pause", BoolData(FALSE))>>

\* C7: when the UI and the MPRIS bridge both read Player.StateChanges, every
\* state-changing event is observed by both (unless a notification was
\* dropped): once the engine has finished and everything sent has been
\* received, each of them has seen the latest state.
C7_BothObserve ==
    (rev = "A" /\ Quiet /\ NoDrop) => \A o \in Observers(rev) : seen[o].ver = ver

\* C8: once the engine has stopped emitting and every notification has been
\* consumed, each observer shows the Player's current PlaybackState.
C8_DisplaysCatchUp ==
    (Quiet /\ Len(subs) >= 1) => \A o \in Observers(rev) : display[o] = Render(o, state)

\* C9: publishing never blocks the listener: at its publish point the sends
\* can always be made, a full channel is left as it is (that notification is
\* dropped), the listener returns to its loop, and it can always take the next
\* line.
C9_PublishNeverBlocks ==
    /\ [](lpc = "publish" => ENABLED ListenerPublish)
    /\ []((lpc = "scan" /\ stream /= <<>>) => ENABLED ListenerRead)
    /\ [][ListenerPublish
            => /\ lpc' = "scan"
               /\ \A i \in 1..Len(subs) :
                     ~HasRoom(subs[i]) => subs'[i] = subs[i] /\ lastPub'[i] /= "sent"]_vars

C9_Witness ==
    /\ Len(subs) >= 1
    /\ Len(subs[1]) = 10
    /\ lastPub = <<"dropped">>
    /\ lpc = "scan"
    /\ ver > subs[1][10].ver
    /\ state /= subs[1][10].s

\* C10: a snapshot taken from a notification channel is never newer than what
\* GetState() returns: it is the current state or one that a later mutation
\* has replaced.
C10_GetStateNotOlder ==
    /\ \A i \in 1..Len(subs) : \A k \in 1..Len(subs[i]) :
          /\ subs[i][k].ver <= ver
          /\ subs[i][k].ver = ver => subs[i][k].s = GetState
    /\ \A o \in Observers(rev) :
          /\ seen[o].ver <= ver
          /\ (seen[o].ver = ver /\ ver > 0) => seen[o].s = GetState

C10_Witness ==
    \E o \in Observers(rev) :
        /\ seen[o].ver >= 1
        /\ ver > seen[o].ver
        /\ seen[o].s /= GetState

\* C11: what is received on a notification channel is a subsequence, in the
\* same order, of the states the store went through: the mutation numbers
\* along a channel never decrease and are not older than what its reader
\* already has, a channel only loses its head or gains the current state at
\* its tail, the mutation number goes up by one exactly when the state
\* changes, and a reader only ever moves on to the head of the channel.
C11_InMutationOrder ==
    /\ [](\A i \in 1..Len(subs) : \A k \in 1..Len(subs[i]) :
             k < Len(subs[i]) => subs[i][k].ver <= subs[i][k + 1].ver)
    /\ [](\A o \in Observers(rev) :
             (Len(subs) >= 1 /\ subs[1] /= <<>>) => seen[o].ver <= subs[1][1].ver)
    /\ [][\A i \in 1..Len(subs) :
             \/ subs'[i] = subs[i]
             \/ subs[i] /= <<>> /\ subs'[i] = Tail(subs[i])
             \/ subs'[i] = Append(subs[i], Snap(state, ver))]_vars
    /\ [][IF state' /= state THEN ver' = ver + 1 ELSE ver' = ver]_vars
    /\ [][\A o \in Observers(rev) :
             seen'[o] /= seen[o]
                => /\ subs[1] /= <<>>
                   /\ seen'[o] = Head(subs[1])
                   /\ seen'[o].ver >= seen[o].ver]_vars

C11_Witness ==
    \E o \in Observers(rev) :
        /\ seen[o].ver = 1
        /\ Len(subs) >= 1
        /\ subs[1] /= <<>>
        /\ subs[1][1].ver = 2
        /\ subs[1][1].s /= seen[o].s

\* C12: Shutdown() on a running player with a responsive engine writes "quit"
\* to the socket before the engine is forcibly terminated: the process is
\* killed only as the outcome of the quit attempt (the command failed or the
\* wait expired), and with the engine up that attempt does go to the socket.
C12_QuitBeforeKill ==
    [][/\ (proc = "running" /\ proc' = "killed") => (sdpc = "quit" /\ sdpc' = "wait")
       /\ (sdpc = "quit" /\ sdpc' = "wait" /\ proc = "running" /\ sock = "present")
             => lastCall'.dial /= "none"]_vars

\* C13: a Shutdown() call on a running player always returns, also when the
\* engine never exits by itself and never takes the "quit" command.
C13_ShutdownReturns == (sdpc = "quit") ~> (sdpc = "done")

C13_Witness ==
    /\ sdpc = "done"
    /\ proc = "killed"
    /\ lastCall.op = "Shutdown"
    /\ lastCall.wrote /= Quit

\* C14: when Shutdown() has returned, every notification channel observers
\* read from has been closed and the control socket file is gone.
C14_ClosedAndRemoved ==
    sdpc = "done" => /\ Len(subs) >= 1 => chClosed
                     /\ sock = "absent"

\* C15: in every revision of the constructor, when it fails because the
\* control socket never became connectable, the engine process it spawned is
\* no longer running when it returns.
C15_NoOrphanEngine ==
    (startpc = "failed" /\ startErr \in {"socket", "connect"}) => proc /= "running"

\* C16: when an observe_property command cannot be sent, construction fails:
\* the engine is killed, an error is returned and the listener is never
\* started; a Player is not returned with fewer than all five registered.
C16_ObserveFailureFailsStart ==
    /\ (\E k \in 1..Len(observed) : ~observed[k].ok)
          => (startpc = "failed" /\ proc /= "running" /\ lpc = "none")
    /\ (startpc = "running" /\ rev /= "0")
          => (Len(observed) = Len(Properties) /\ \A k \in 1..Len(observed) : observed[k].ok)

\* C17: a call of LoadFile/Play, TogglePause, Stop, SetVolume or Seek, whether
\* it succeeds or fails, leaves every field of the PlaybackState as it was and
\* puts nothing on any notification channel; the state changes only in a step
\* of the event listener taking a line.
C17_CommandsLeaveState ==
    /\ [][(\E op \in CommandOps : Called(op))
            => /\ state' = state
               /\ ver' = ver
               /\ subs' = subs
               /\ snap' = snap
               /\ lpc' = lpc]_vars
    /\ [][state' /= state
            => (lpc = "scan" /\ stream /= <<>> /\ stream' = Tail(stream))]_vars

C17_Witness ==
    /\ lastCall.op = "SetVolume"
    /\ lastCall.err = ""
    /\ lastCall.wrote = Cmd("set_property", <<>>, "volume", 50)
    /\ state.Volume /= 50
    /\ ver = 0

\* C18: every consumer that derives a playback status shows "Stopped" when
\* the title of the state it rendered is empty, whatever IsPlaying is.
C18_StoppedWhenNoTitle ==
    \A o \in Observers(rev) :
        (display[o] /= BlankView /\ display[o].title = <<>>) => display[o].status = "Stopped"

\* C19: a decoded event that changes a field of the PlaybackState leads to one
\* publish of the state after the change; a decoded event that leaves the
\* PlaybackState equal to what it was leads to no publish.
C19_PublishIffChanged ==
    [][\A l \in AllLines :
          (Processing(l) /\ l.ok)
             => IF state' /= state
                THEN lpc' = "publish" /\ snap'.s = state'
                ELSE lpc' = "scan"]_vars

\* C20: the write lock of the state is never held while a snapshot is being
\* sent to a notification channel.
C20_NoLockAcrossSend == lpc = "publish" => mu = "free"

\* C21: once the Player's context has been cancelled, every sendCommand call
\* returns an error without dialling and without writing a command.
C21_FailFastAfterCancel ==
    [][(ctxDone /\ lastCall' /= lastCall)
          => /\ lastCall'.err /= ""
             /\ lastCall'.dial = "none"
             /\ lastCall'.wrote = NoCmd]_vars

\* C22: a Player that a constructor has just returned, and that has handled
\* no event yet, has volume 100, IsPlaying false and an empty title, in every
\* revision that keeps a PlaybackState.
C22_InitialState ==
    (startpc = "running" /\ rev /= "0" /\ lastLine = NoLine)
        => /\ state.Volume = 100
           /\ ~state.IsPlaying
           /\ state.Title = <<>>

\* C23: construction goes cleanup, spawn, readiness wait, registration,
\* listener: nothing is registered before the engine is spawned, and the
\* listener reads events only after one observe_property command has been
\* sent successfully for each of the five properties, each with its own id.
C23_RegisteredBeforeListening ==
    /\ observed /= <<>> => proc /= "none"
    /\ lpc \in {"scan", "publish"}
          => /\ Len(observed) = Len(Properties)
             /\ \A k \in 1..Len(observed) : observed[k].ok
             /\ \A i \in 1..Len(Properties) :
                   \E k \in 1..Len(observed) : observed[k].prop = Properties[i]
             /\ \A j, k \in 1..Len(observed) : j /= k => observed[j].id /= observed[k].id

\* C24: the engine is never spawned while a socket file of an earlier run is
\* still at the socket path, and a failed removal of that file ends
\* construction with an error and no engine.
C24_NoSpawnOverStaleSocket ==
    /\ [](startErr = "cleanup" => proc = "none")
    /\ [][(proc = "none" /\ proc' = "running") => sock = "absent"]_vars

\* C25: in the StateChanges revision the channel is closed only after the
\* listener has exited: the listener is never at a send, nor anywhere else in
\* its loop, with the channel closed, and nothing is put on a closed channel.
C25_CloseAfterListenerExit ==
    /\ [](chClosed => lpc = "exited")
    /\ [][chClosed => \A i \in 1..Len(subs) : Len(subs'[i]) <= Len(subs[i])]_vars

C25_Witness ==
    /\ rev = "A"
    /\ chClosed
    /\ lastPub = <<"skipped">>
    /\ ver >= 1

\* C26: once the read source has closed or the context has been cancelled the
\* listener exits; a line it takes after the cancellation is not handled
\* (no decoding, no change of state, nothing sent); and a listener that has
\* exited never runs again.
C26_ListenerExitsOnce ==
    /\ ((ctxDone \/ proc \in {"exited", "killed"}) /\ lpc /= "none") ~> (lpc = "exited")
    /\ [][(ctxDone /\ lpc = "scan" /\ stream /= <<>> /\ stream' = Tail(stream))
            => /\ lpc' = "exited"
               /\ state' = state
               /\ lastLine' = lastLine
               /\ subs' = subs]_vars
    /\ [][lpc = "exited" => lpc' = "exited"]_vars

C26_Witness ==
    /\ lpc = "exited"
    /\ ctxDone
    /\ proc = "running"
    /\ left = 0
    /\ stream = <<>>
    /\ lastLine = NoLine

\* the type of data each tracked property is expected to carry
TypeOf(name) ==
    CASE name = "pause" -> "bool"
      [] name = "media-title" -> "str"
      [] OTHER -> "num"

\* a decodable line that is to be ignored: an event of an unrecognised kind, a
\* property that is not tracked, or a tracked property with data of another type
Ignorable(l) ==
    /\ l.ok
    /\ \/ l.event = "seek"
       \/ /\ l.event = "property-change"
          /\ \/ \A i \in 1..Len(Properties) : l.name /= Properties[i]
             \/ l.data.t /= TypeOf(l.name)

\* C27: an event of an unrecognised kind, a property-change of an untracked
\* property, or a property-change of a tracked property with data of the
\* wrong type changes no field of the PlaybackState, leaves the listener in
\* its loop, and leads to no send on a notification channel (the listener
\* goes to its sends only if there is no channel to send on).
C27_IgnoredEventsAreSilent ==
    [][\A l \in AllLines :
          (Processing(l) /\ Ignorable(l))
             => /\ state' = state
                /\ subs' = subs
                /\ lpc' /= "exited"
                /\ lpc' = "publish" => subs = <<>>]_vars

\* C28: after the listener handles a "playback-restart" event, IsPlaying is
\* true and the error field is empty, whatever the state was before.
C28_PlaybackRestart ==
    [][Processing(Ev("playback-restart", "", NullData))
          => (state'.IsPlaying /\ state'.Error = "")]_vars

\* the nearest integer to a number held in tenths, halves away from zero
Round(x) == IF x >= 0 THEN (x + 5) \div 10 ELSE -((-x + 5) \div 10)

\* C29: a "volume" property-change with numeric data d sets the volume to d
\* rounded to the nearest integer (49.6 gives 50).
C29_VolumeRounded ==
    [][\A l \in AllLines :
          (Processing(l) /\ l.ok /\ l.event = "property-change" /\ l.name = "volume"
              /\ l.data.t = "num")
             => state'.Volume = Round(l.data.n)]_vars

\* C30: a "media-title" property-change with string data d sets the title to
\* the base name of d with surrounding whitespace removed, and to the empty
\* string when d is empty or only whitespace.
C30_TitleTrimmedBaseName ==
    [][\A l \in AllLines :
          (Processing(l) /\ l.ok /\ l.event = "property-change" /\ l.name = "media-title"
              /\ l.data.t = "str")
             => state'.Title = IF TrimSpace(l.data.s) = <<>> THEN <<>>
                               ELSE Base(TrimSpace(l.data.s))]_vars

(***************************************************************************)
(* C31: a sendCommand call that is dialling or writing can always take its *)
(* next step by itself (go on, fail, or give up on a deadline): it never   *)
(* waits for the engine to read, so it returns within a bounded time.      *)
(***************************************************************************)
C31_CallNeverWaitsOnEngine ==
    /\ sendpc = "dial" => ENABLED SendDial
    /\ sendpc = "write" => ENABLED SendWrite

C33_SecondShutdownIsNoOp == panic /= "close of closed channel"

(***************************************************************************)
(* C34: once Shutdown() has returned, every call of a command method       *)
(* returns an error and writes nothing to the control socket.              *)
(***************************************************************************)
C34_NoCommandAfterShutdown ==
    [][(sdpc = "done" /\ lastCall' /= lastCall /\ lastCall'.op \in CommandOps)
        => /\ lastCall'.err /= ""
           /\ lastCall'.wrote = NoCmd]_vars

\* Shutdown() has returned leaving the socket file behind, and a command
\* called on the Subscribe revision dialled it and was refused
C34_Witness ==
    /\ rev = "B"
    /\ sdpc = "done"
    /\ sock = "present"
    /\ proc = "killed"
    /\ lastCall.op = "Play"
    /\ lastCall.path = TitleA
    /\ lastCall.dial = "failed"
    /\ lastCall.err = "connect"

(***************************************************************************)
(* C35: the MPRIS Pause() never resumes playback and Play() never pauses   *)
(* it: whenever one of them changes the engine's pause property, the call  *)
(* made on the status "Playing" (Pause) leaves the engine paused and the   *)
(* call made on the status "Paused" (Play) leaves it playing.              *)
(***************************************************************************)
C35_PauseNeverResumes ==
    [][mpvPaused' /= mpvPaused
        => mpvPaused' = (display["mpris"].status = "Playing")]_vars

(***************************************************************************)
(* C36: in the tview UI every SetVolume request a volume key issues has an *)
(* argument within [0,100], one that SetVolume accepts.                    *)
(***************************************************************************)
C36_KeysStayInRange ==
    [][(lastCall' /= lastCall /\ lastCall'.op = "SetVolume")
        => /\ lastCall'.n >= 0
           /\ lastCall'.n <= 100
           /\ lastCall'.err /= "invalid"]_vars

(***************************************************************************)
(* C37: in the wrap-around cursor UI the Enter handler only ever indexes   *)
(* songs or stations at a position of the list shown, also when that list  *)
(* is empty: no sequence of keys ends in an index out of range.            *)
(***************************************************************************)
C37_EnterIndexesInRange == panic /= "index out of range"

(***************************************************************************)
(* C38: in the Bubble Tea UI the cursor always satisfies                   *)
(* 0 <= cursor <= max(0, itemCount - 1) for the view shown, switching the  *)
(* view sets it to 0, and a LoadFile that a key press issues carries the   *)
(* URL or path under the cursor in the view shown, with mode "replace".    *)
(***************************************************************************)
C38_CursorInList ==
    /\ [](/\ 0 <= cursor
          /\ cursor <= (IF getItemCount - 1 > 0 THEN getItemCount - 1 ELSE 0))
    /\ [][currentView' /= currentView => cursor' = 0]_vars
    /\ [][(lastCall' /= lastCall /\ lastCall'.op = "LoadFile")
            => /\ InRange(cursor, Shown)
               /\ lastCall'.path = Shown[cursor + 1]
               /\ lastCall'.mode = "replace"
               /\ UNCHANGED <<cursor, currentView>>]_vars

\* the cursor is on the last local file, after a switch of view and two steps
\* down, and Enter has asked the player for that file
C38_Witness ==
    /\ currentView = "files"
    /\ Len(files) = MaxItems
    /\ cursor = MaxItems - 1
    /\ lastCall.op = "LoadFile"
    /\ lastCall.path = files[MaxItems]
    /\ lastCall.wrote = Cmd("loadfile", files[MaxItems], "replace", 0)

(***************************************************************************)
(* C39: for a list of n >= 0 files and a cursor with 0 <= cursor <         *)
(* max(1, n), getVisibleRange gives (start, end) with                      *)
(* 0 <= start <= end <= n, end - start <= 20, end - start = min(n, 20),    *)
(* and, when n > 0, start <= cursor < end.                                 *)
(***************************************************************************)
C39_VisibleRange ==
    [][visible' /= visible
        => LET n == Len(files)
               start == visible'[1]
               end == visible'[2]
           IN  /\ cursor >= 0 /\ cursor < (IF n > 1 THEN n ELSE 1)
               /\ 0 <= start /\ start <= end /\ end <= n
               /\ end - start <= 20
               /\ end - start = (IF n < 20 THEN n ELSE 20)
               /\ n > 0 => start <= cursor /\ cursor < end]_vars

\* the cursor is on the last file of the longest list and the window has been
\* pulled back to end with the list
C39_Witness ==
    /\ Len(files) = MaxFiles
    /\ cursor = MaxFiles - 1
    /\ visible = <<MaxFiles - visibleItems, MaxFiles>>

====
